---- MODULE Spec2Model ----
(***************************************************************************)
(* State-machine model of the audio engine: channel arbitration with       *)
(* priority preemption (audio_engine.cpp PlaySound), the playing-sounds    *)
(* table with its counted PlayingSound copies, reference-counted sound     *)
(* banks (LoadSoundBank / UnloadSoundBank) and the per-frame tick.         *)
(* The mixer (SDL_mixer) is the environment: a pool of buffer channels     *)
(* plus one stream voice, each idle or playing.                            *)
(***************************************************************************)
EXTENDS Integers, Sequences, FiniteSets, TLC

(* ------------------------------ bounds -------------------------------- *)

\* Largest world time a caller passes to AdvanceFrame.
MaxTime == 1
\* Largest number of successful LoadSoundBank calls per bank.
MaxLoads == 2
\* The number N of buffer channels the configuration asks for
\* (config->mixer_channels()).
NumChannels == 2
\* Longest child_buses list of a bus definition read by Initialize.
MaxChildren == 2

(* ------------------------- program constants -------------------------- *)

kStreamChannel == -100
kInvalidChannel == -1
MIX_MAX_VOLUME == 128

\* Fixed-point unit of a gain of 1.0f: gains are counted in sixteenths, so
\* that the products of the gains used here are exact, as they are in float.
GainOne == 16

NullHandle == "null"
NoBus == "nobus"

(* ------------------------------ fixtures ------------------------------ *)

\* buses.bin: master with the children sfx and music, music with the child
\* voice; a sound on sfx ducks music. music and voice have a gain of 0.5.
BusNames == <<"master", "sfx", "music", "voice">>
Buses == {BusNames[i] : i \in DOMAIN BusNames}

BusDef(b) ==
    CASE b = "master" -> [gain |-> GainOne, child_buses |-> <<"sfx", "music">>,
                          duck_buses |-> <<>>]
      [] b = "sfx"    -> [gain |-> GainOne, child_buses |-> <<>>,
                          duck_buses |-> <<"music">>]
      [] b = "music"  -> [gain |-> GainOne \div 2, child_buses |-> <<"voice">>,
                          duck_buses |-> <<>>]
      [] b = "voice"  -> [gain |-> GainOne \div 2, child_buses |-> <<>>,
                          duck_buses |-> <<>>]

\* The sound collection definitions the banks list.
Collections == {"low", "mid", "high", "s1", "s2"}

SoundCollectionDef(c) ==
    CASE c = "low"  -> [priority |-> 1,  stream |-> 0, loop |-> 0,
                        bus |-> "sfx", gain |-> GainOne]
      [] c = "mid"  -> [priority |-> 5,  stream |-> 0, loop |-> 1,
                        bus |-> "sfx", gain |-> GainOne]
      [] c = "high" -> [priority |-> 10, stream |-> 0, loop |-> 0,
                        bus |-> "master", gain |-> GainOne]
      [] c = "s1"   -> [priority |-> 1,  stream |-> 1, loop |-> 1,
                        bus |-> "music", gain |-> GainOne]
      [] c = "s2"   -> [priority |-> 1,  stream |-> 1, loop |-> 0,
                        bus |-> "voice", gain |-> GainOne]

\* Two banks sharing the collection "mid".
Banks == {"A", "B"}

BankCollections(b) ==
    CASE b = "A" -> {"low", "mid", "s1"}
      [] b = "B" -> {"mid", "high", "s2"}

\* Names a caller may pass to PlaySound(name): the collections and one unknown.
Names == Collections \cup {"nosuch"}

BufferChannels == 0 .. (NumChannels - 1)
Channels == BufferChannels \cup {kStreamChannel}

(* ------------------------------- state -------------------------------- *)

VARIABLES
    playing_sounds_,   \* std::vector<PlayingSound>
    capacity,          \* capacity of playing_sounds_ (reserve, growth)
    sound_counter,     \* Bus::sound_counter_ of every bus
    duck_gain,         \* Bus::duck_gain_ of every bus
    gain,              \* Bus::gain_ of every bus
    world_time_,       \* AudioEngine::world_time_
    mute_,             \* AudioEngine::mute_
    master_gain_,      \* AudioEngine::master_gain_
    sound_bank_map_,   \* the registered banks (keys of sound_bank_map_)
    bank_ref,          \* SoundBank::ref_counter of every bank
    collection_map_,   \* the registered collections (keys of collection_map_)
    coll_ref,          \* SoundCollection::ref_counter of every collection
    mixer,             \* the mixer's voices: "idle", "looping", "ending"
    volume,            \* the mixer's volume of every voice
    aborted,           \* an assertion stopped the program
    buses_source_,     \* the BusDefList read from buses.bin
    buses_,            \* the Bus objects: resolved child and duck pointers
    master_bus_,       \* pointer to the bus named "master" (0: nullptr)
    initialized,       \* what AudioEngine::Initialize answered, or "pending"
    state_,            \* Channel::state_ of every handle, or nullptr
    voice,             \* the ChannelInternalState objects
    chan_last,         \* history: what the Channel call just made did
    next_,             \* IntrusiveListNode::next_ of every node
    prev_,             \* IntrusiveListNode::prev_ of every node
    list_hist,         \* history: the insertions made on the empty head
    hist,              \* history: calls made on each bank
    last               \* history: what the call just made did, when it was a
                       \* PlaySound, LoadSoundBank or UnloadSoundBank

vars == <<playing_sounds_, capacity, sound_counter, duck_gain, gain,
          world_time_, mute_, master_gain_, sound_bank_map_, bank_ref,
          collection_map_, coll_ref, mixer, volume, aborted, buses_source_,
          buses_, master_bus_, initialized, state_, voice, chan_last, next_,
          prev_, list_hist, hist, last>>

playVars == <<playing_sounds_, capacity, sound_counter, mixer, volume>>
busVars == <<duck_gain, gain, mute_, master_gain_>>
bankVars == <<sound_bank_map_, bank_ref, collection_map_, coll_ref, hist>>
initVars == <<buses_source_, buses_, master_bus_, initialized>>
\* The engine's initialization, the Channel handles and the list nodes: what
\* the operations of a running engine never write.
chanVars == <<state_, voice, chan_last>>
listVars == <<next_, prev_, list_hist>>
otherVars == <<initVars, chanVars, listVars>>
\* What the Channel handles and the list nodes never write.
engineVars == <<playVars, busVars, bankVars, initVars, world_time_, last>>

(* ----------------------- PlayingSound accounting ---------------------- *)

\* SoundCollection::bus(): the bus the collection is bound to, or null.
CollectionBus(c) == SoundCollectionDef(c).bus

IncrementSoundCounter(cnt, b) == [cnt EXCEPT ![b] = @ + 1]

DecrementSoundCounter(cnt, b) == [cnt EXCEPT ![b] = @ - 1]

PlayingSound(c, cid, t) ==
    [sound_collection |-> c, channel_id |-> cid, start_time |-> t]

\* PlayingSound(collection, cid, time): counts the new record on its bus.
Ctor(cnt, p) ==
    LET bus == CollectionBus(p.sound_collection)
    IN  IF bus # NoBus THEN IncrementSoundCounter(cnt, bus) ELSE cnt

\* PlayingSound(const PlayingSound& other): counts the copy as well.
CopyCtor(cnt, other) ==
    LET bus == CollectionBus(other.sound_collection)
    IN  IF bus # NoBus THEN IncrementSoundCounter(cnt, bus) ELSE cnt

\* ~PlayingSound(): uncounts the record.
Dtor(cnt, p) ==
    LET bus == CollectionBus(p.sound_collection)
    IN  IF bus # NoBus THEN DecrementSoundCounter(cnt, bus) ELSE cnt

\* An operator= that uncounts the overwritten record and forgets to count
\* the one assigned.
Assign_NoIncrement(cnt, this, other) ==
    LET bus == CollectionBus(this.sound_collection)
    IN  IF bus # NoBus THEN DecrementSoundCounter(cnt, bus) ELSE cnt

\* operator=(other): uncounts the overwritten record, counts the new one.
Assign(cnt, this, other) ==
    LET bus == CollectionBus(this.sound_collection)
        c1 == IF bus # NoBus THEN DecrementSoundCounter(cnt, bus) ELSE cnt
        other_bus == CollectionBus(other.sound_collection)
    IN  IF other_bus # NoBus THEN IncrementSoundCounter(c1, other_bus) ELSE c1

RECURSIVE CopyAll(_, _, _)
\* Copy-constructs elements i.. of the vector (a reallocation).
CopyAll(cnt, ps, i) ==
    IF i > Len(ps) THEN cnt ELSE CopyAll(CopyCtor(cnt, ps[i]), ps, i + 1)

RECURSIVE DestroyAll(_, _, _)
\* Destroys elements i.. of the vector.
DestroyAll(cnt, ps, i) ==
    IF i > Len(ps) THEN cnt ELSE DestroyAll(Dtor(cnt, ps[i]), ps, i + 1)

RECURSIVE AssignAll(_, _, _, _)
\* Assigns to[i] onto from[i] for every index i.. (the moves of a sort).
AssignAll(cnt, from, to, i) ==
    IF i > Len(from) THEN cnt
    ELSE AssignAll(Assign(cnt, from[i], to[i]), from, to, i + 1)

\* playing_sounds_.push_back(PlayingSound(c, cid, t)): the temporary is
\* constructed, copied into the vector (PlayingSound declares a copy
\* constructor, so it has no move constructor) and destroyed; a full vector
\* is first reallocated, copying and destroying every element.
PushBack(ps, cnt, cap, c, cid, t) ==
    LET temp == PlayingSound(c, cid, t)
        c1 == Ctor(cnt, temp)
        c2 == CopyCtor(c1, temp)
        grow == Len(ps) >= cap
        c3 == IF grow THEN DestroyAll(CopyAll(c2, ps, 1), ps, 1) ELSE c2
    IN  [ps |-> Append(ps, temp),
         cnt |-> Dtor(c3, temp),
         cap |-> IF grow THEN (IF cap = 0 THEN 1 ELSE 2 * cap) ELSE cap]

\* playing_sounds_.pop_back()
PopBack(ps, cnt) ==
    [ps |-> SubSeq(ps, 1, Len(ps) - 1), cnt |-> Dtor(cnt, ps[Len(ps)])]

RECURSIVE RemoveLoop(_, _, _, _, _)
\* The loop of std::remove_if: every kept element after the first removed one
\* is assigned onto the next free slot.
RemoveLoop(a, cnt, i, result, chans) ==
    IF i > Len(a) THEN [a |-> a, cnt |-> cnt, result |-> result]
    ELSE IF a[i].channel_id \in chans
         THEN RemoveLoop(a, cnt, i + 1, result, chans)
         ELSE RemoveLoop([a EXCEPT ![result] = a[i]],
                         Assign(cnt, a[result], a[i]), i + 1, result + 1, chans)

\* v.erase(std::remove_if(v.begin(), v.end(), pred), v.end()) where pred holds
\* of the records whose channel is in chans: the tail left behind by
\* remove_if is destroyed.
EraseIf(ps, cnt, chans) ==
    LET hits == {i \in DOMAIN ps : ps[i].channel_id \in chans}
    IN  IF hits = {} THEN [ps |-> ps, cnt |-> cnt]
        ELSE LET first == CHOOSE i \in hits : \A j \in hits : i <= j
                 r == RemoveLoop(ps, cnt, first + 1, first, chans)
             IN  [ps |-> SubSeq(r.a, 1, r.result - 1),
                  cnt |-> DestroyAll(r.cnt, r.a, r.result)]

(* --------------------------- priority order --------------------------- *)

\* A comparison by priority alone, streams ranked like any other sound.
SoundCollectionDefComparitor_IgnoreStream(a, b) ==
    IF (b.priority - a.priority) < 0 THEN -1 ELSE 1

\* A comparison that ranks an equal priority as higher.
SoundCollectionDefComparitor_LowerOrEqual(a, b) ==
    IF a.stream # 0 \/ b.stream # 0
    THEN b.stream - a.stream
    ELSE IF (b.priority - a.priority) <= 0 THEN -1 ELSE 1

\* SoundCollectionDefComparitor(a, b): negative when a ranks above b.
SoundCollectionDefComparitor(a, b) ==
    IF a.stream # 0 \/ b.stream # 0
    THEN b.stream - a.stream
    ELSE IF (b.priority - a.priority) < 0 THEN -1 ELSE 1

\* AudioEngine::PriorityComparitor(a, b), an int.
PriorityComparitor(a, b) ==
    LET result == SoundCollectionDefComparitor(
                      SoundCollectionDef(a.sound_collection),
                      SoundCollectionDef(b.sound_collection))
    IN  IF result = 0 THEN b.start_time - a.start_time ELSE result

\* std::sort calls its comparison as a predicate: the int converts to bool.
Comp(a, b) == PriorityComparitor(a, b) # 0

\* The requirement std::sort puts on its comparison, over the records sorted.
IsStrictWeakOrdering(ps) ==
    LET I == DOMAIN ps
        Equiv(i, j) == ~Comp(ps[i], ps[j]) /\ ~Comp(ps[j], ps[i])
    IN  /\ \A i \in I : ~Comp(ps[i], ps[i])
        /\ \A i, j, k \in I :
              Comp(ps[i], ps[j]) /\ Comp(ps[j], ps[k]) => Comp(ps[i], ps[k])
        /\ \A i, j, k \in I : Equiv(i, j) /\ Equiv(j, k) => Equiv(i, k)

\* Every rearrangement of the vector.
Rearrangements(ps) ==
    {[i \in DOMAIN ps |-> ps[f[i]]] : f \in Permutations(DOMAIN ps)}

\* AudioEngine::PrioritizeChannels: std::sort(begin, end, PriorityComparitor).
\* With a comparison that is a strict weak ordering the result is sorted by
\* it; with any other comparison the behaviour of std::sort is undefined and
\* the order it leaves is any rearrangement.
PrioritizeChannels(ps) ==
    IF IsStrictWeakOrdering(ps)
    THEN {p \in Rearrangements(ps) :
             \A i, j \in DOMAIN p : i < j => ~Comp(p[j], p[i])}
    ELSE Rearrangements(ps)

(* -------------------------------- mixer -------------------------------- *)

\* Mix_AllocateChannels(-1)
AllocatedChannelCount == NumChannels

\* Mix_Playing(-1)
PlayingChannelCount(mix) == Cardinality({c \in BufferChannels : mix[c] # "idle"})

\* AudioEngine::Playing(channel_id): Mix_PlayingMusic / Mix_Playing.
Playing(mix, channel_id) == mix[channel_id] # "idle"

\* AudioEngine::Halt(channel_id): Mix_HaltMusic / Mix_HaltChannel.
Halt(mix, channel_id) == [mix EXCEPT ![channel_id] = "idle"]

\* static_cast<int>(volume * MIX_MAX_VOLUME), volume in units of 1/GainOne.
MixVolume(g) == (g * MIX_MAX_VOLUME) \div GainOne

\* FindFreeChannel(stream)
\* A search that looks for a buffer channel for a stream as well.
FindFreeChannel_IgnoreStream(stream, mix) ==
    IF PlayingChannelCount(mix) < AllocatedChannelCount
    THEN CHOOSE i \in BufferChannels :
             /\ ~Playing(mix, i)
             /\ \A j \in BufferChannels : ~Playing(mix, j) => i <= j
    ELSE kInvalidChannel

FindFreeChannel(stream, mix) ==
    IF stream THEN kStreamChannel
    ELSE IF PlayingChannelCount(mix) < AllocatedChannelCount
         THEN CHOOSE i \in BufferChannels :
                  /\ ~Playing(mix, i)
                  /\ \A j \in BufferChannels : ~Playing(mix, j) => i <= j
         ELSE kInvalidChannel

\* An EraseFinishedSounds that leaves the finished records in the table.
EraseFinishedSounds_Keep(ps, cnt, mix) == [ps |-> ps, cnt |-> cnt]

\* AudioEngine::EraseFinishedSounds
EraseFinishedSounds(ps, cnt, mix) ==
    EraseIf(ps, cnt, {c \in Channels : ~Playing(mix, c)})

\* An EraseStreams that leaves the stream records in the table.
EraseStreams_Keep(ps, cnt) == [ps |-> ps, cnt |-> cnt]

\* AudioEngine::EraseStreams
EraseStreams(ps, cnt) == EraseIf(ps, cnt, {kStreamChannel})

\* AudioEngine::PlaySource with SoundBuffer/SoundStream::SetGain and ::Play:
\* the voice's volume is set, then the mixer starts the voice or refuses (ok).
PlaySource(mix, vol, c, channel_id, ok) ==
    LET def == SoundCollectionDef(c)
        g == (GainOne * def.gain) \div GainOne
    IN  [vol |-> [vol EXCEPT ![channel_id] = MixVolume(g)],
         mix |-> IF ok
                 THEN [mix EXCEPT ![channel_id] =
                           IF def.loop # 0 THEN "looping" ELSE "ending"]
                 ELSE mix]

(* ------------------------------ PlaySound ------------------------------ *)

LastNone ==
    [op |-> "none", arg |-> "none", ret |-> 0, branch |-> "none",
     halted |-> {}, played |-> "none", pruned |-> 0, deinit |-> FALSE]

\* The value PlaySound returns after the play attempt (line 381).
PlayReturn(new_channel, ok) == new_channel

\* Lines 375-381: the play attempt and the record.
PlayAndRecord(ps, cnt, mix, c, new_channel, branch, halted, ok) ==
    LET src == PlaySource(mix, volume, c, new_channel, ok)
        pb == PushBack(ps, cnt, capacity, c, new_channel, world_time_)
    IN  [ps |-> IF ok THEN pb.ps ELSE ps,
         cnt |-> IF ok THEN pb.cnt ELSE cnt,
         cap |-> IF ok THEN pb.cap ELSE capacity,
         mix |-> src.mix, vol |-> src.vol, abort |-> FALSE,
         last |-> [LastNone EXCEPT !.op = "PlaySound", !.arg = c,
                      !.ret = PlayReturn(new_channel, ok), !.branch = branch,
                      !.halted = halted,
                      !.played = IF ok THEN "ok" ELSE "failed"]]

\* Lines 346-363: no free channel. The table is sorted and its last record
\* gives way if the new sound ranks above it; the outcomes over every order
\* the sort may leave and both answers of the mixer.
Preempt(e, c, mix) ==
    IF Len(e.ps) = 0
    THEN {[ps |-> e.ps, cnt |-> e.cnt, cap |-> capacity, mix |-> mix,
           vol |-> volume, abort |-> TRUE,
           last |-> [LastNone EXCEPT !.op = "PlaySound", !.arg = c,
                        !.ret = kInvalidChannel, !.branch = "back of empty"]]}
    ELSE UNION {
        LET sorted_cnt == AssignAll(e.cnt, e.ps, p, 1)
            back == p[Len(p)]
        IN  IF SoundCollectionDefComparitor(
                   SoundCollectionDef(c),
                   SoundCollectionDef(back.sound_collection)) < 0
            THEN LET new_channel == back.channel_id
                     pop == PopBack(p, sorted_cnt)
                 IN  {PlayAndRecord(pop.ps, pop.cnt, Halt(mix, new_channel),
                                    c, new_channel, "preempt", {new_channel},
                                    ok) : ok \in BOOLEAN}
            ELSE {[ps |-> p, cnt |-> sorted_cnt, cap |-> capacity,
                   mix |-> mix, vol |-> volume, abort |-> FALSE,
                   last |-> [LastNone EXCEPT !.op = "PlaySound", !.arg = c,
                                !.ret = kInvalidChannel, !.branch = "refuse"]]}
        : p \in PrioritizeChannels(e.ps)}

\* Lines 364-370: a stream request halts the stream that is playing.
ReplaceStream(e, c, mix) ==
    IF Playing(mix, kStreamChannel)
    THEN LET es == EraseStreams(e.ps, e.cnt)
         IN  {PlayAndRecord(es.ps, es.cnt, Halt(mix, kStreamChannel), c,
                            kStreamChannel, "stream", {kStreamChannel},
                            ok) : ok \in BOOLEAN}
    ELSE {PlayAndRecord(e.ps, e.cnt, mix, c, kStreamChannel, "stream", {},
                        ok) : ok \in BOOLEAN}

\* AudioEngine::PlaySound(SoundHandle) for a non-null handle: every outcome.
\* The mixer plays on its own thread: the voices in ended, which the prune
\* at line 339 still found playing, have come to their end when
\* FindFreeChannel and the rest of the call ask the mixer.
PlaySoundOutcomesRacing(c, ended) ==
    LET e == EraseFinishedSounds(playing_sounds_, sound_counter, mixer)
        mix == [ch \in Channels |->
                  IF ch \in ended THEN "idle" ELSE mixer[ch]]
        stream == SoundCollectionDef(c).stream # 0
        new_channel == FindFreeChannel(stream, mix)
        outcomes ==
            IF new_channel = kInvalidChannel THEN Preempt(e, c, mix)
            ELSE IF new_channel = kStreamChannel THEN ReplaceStream(e, c, mix)
            ELSE {PlayAndRecord(e.ps, e.cnt, mix, c, new_channel, "free",
                                {}, ok) : ok \in BOOLEAN}
    IN  {[o EXCEPT !.last.pruned = Len(playing_sounds_) - Len(e.ps)] :
            o \in outcomes}

\* The outcomes of a call during which no voice comes to its end.
PlaySoundOutcomes(c) == PlaySoundOutcomesRacing(c, {})

\* A PlaySound that prunes the finished sounds before it looks at the handle.
PlaySoundHandle_PruneFirst(sound_handle) ==
    IF sound_handle = NullHandle
    THEN LET e == EraseFinishedSounds(playing_sounds_, sound_counter, mixer)
         IN  /\ last' = [LastNone EXCEPT !.op = "PlaySound",
                            !.arg = NullHandle, !.ret = kInvalidChannel,
                            !.branch = "invalid handle"]
             /\ playing_sounds_' = e.ps
             /\ sound_counter' = e.cnt
             /\ UNCHANGED <<capacity, mixer, volume, aborted>>
    ELSE \E o \in PlaySoundOutcomes(sound_handle) :
            /\ playing_sounds_' = o.ps
            /\ sound_counter' = o.cnt
            /\ capacity' = o.cap
            /\ mixer' = o.mix
            /\ volume' = o.vol
            /\ aborted' = o.abort
            /\ last' = o.last

\* AudioEngine::PlaySound(SoundHandle sound_handle)
PlaySoundHandle(sound_handle) ==
    IF sound_handle = NullHandle
    THEN /\ last' = [LastNone EXCEPT !.op = "PlaySound", !.arg = NullHandle,
                        !.ret = kInvalidChannel, !.branch = "invalid handle"]
         /\ UNCHANGED <<playVars, aborted>>
    ELSE \E o \in PlaySoundOutcomes(sound_handle) :
            /\ playing_sounds_' = o.ps
            /\ sound_counter' = o.cnt
            /\ capacity' = o.cap
            /\ mixer' = o.mix
            /\ volume' = o.vol
            /\ aborted' = o.abort
            /\ last' = o.last

\* AudioEngine::GetSoundHandle(sound_name)
GetSoundHandle(sound_name) ==
    IF sound_name \in collection_map_ THEN sound_name ELSE NullHandle

\* A call of PlaySound(handle) with the null handle or a handle the engine
\* gave out for a registered collection.
PlaySound ==
    /\ ~aborted
    /\ \E h \in collection_map_ \cup {NullHandle} : PlaySoundHandle(h)
    /\ UNCHANGED <<busVars, bankVars, world_time_, otherVars>>

\* A call of PlaySound(handle) during which the mixer's thread ends voices
\* that were about to end. Such calls are followed as long as the table
\* holds no more than a record for every channel.
PlaySoundRacing ==
    /\ ~aborted
    /\ Len(playing_sounds_) <= NumChannels + 1
    /\ \E h \in collection_map_,
          ended \in SUBSET {ch \in Channels : mixer[ch] = "ending"} :
          /\ ended # {}
          /\ \E o \in PlaySoundOutcomesRacing(h, ended) :
                /\ playing_sounds_' = o.ps
                /\ sound_counter' = o.cnt
                /\ capacity' = o.cap
                /\ mixer' = o.mix
                /\ volume' = o.vol
                /\ aborted' = o.abort
                /\ last' = o.last
    /\ UNCHANGED <<busVars, bankVars, world_time_, otherVars>>

\* AudioEngine::PlaySound(const std::string& sound_name)
PlaySoundByName ==
    /\ ~aborted
    /\ \E sound_name \in Names : PlaySoundHandle(GetSoundHandle(sound_name))
    /\ UNCHANGED <<busVars, bankVars, world_time_, otherVars>>

(* ----------------------- Stop and the mixer's end --------------------- *)

\* AudioEngine::Stop(channel_id): Mix_FadeOutMusic / Mix_FadeOutChannel start
\* a fade-out of the voice if it is playing: the voice will end by itself.
Stop ==
    /\ ~aborted
    /\ \E channel_id \in Channels :
          mixer' = IF Playing(mixer, channel_id)
                   THEN [mixer EXCEPT ![channel_id] = "ending"]
                   ELSE mixer
    /\ last' = LastNone
    /\ UNCHANGED <<playing_sounds_, capacity, sound_counter, volume, busVars,
                   bankVars, world_time_, aborted, otherVars>>

\* The mixer ends a voice: a sound played once reaches its end, a fade-out
\* completes. A looping voice ends only by Halt or after Stop.
MixerFinish ==
    /\ ~aborted
    /\ \E channel_id \in Channels :
          /\ mixer[channel_id] = "ending"
          /\ mixer' = [mixer EXCEPT ![channel_id] = "idle"]
    /\ last' = LastNone
    /\ UNCHANGED <<playing_sounds_, capacity, sound_counter, volume, busVars,
                   bankVars, world_time_, aborted, otherVars>>

(* ----------------------------- AdvanceFrame ---------------------------- *)

\* Duck gain moved per unit of world time: half of the way from 1.0 to 0.
DuckRate == 8

Min(a, b) == IF a < b THEN a ELSE b
Max(a, b) == IF a > b THEN a ELSE b

SeqToSet(s) == {s[i] : i \in DOMAIN s}

\* Bus::ResetDuckGain and the duck demand: the target is 0 for a bus ducked by
\* a bus with playing sounds, 1.0 otherwise.
DuckTarget(cnt, b) ==
    IF \E s \in Buses : cnt[s] > 0 /\ b \in SeqToSet(BusDef(s).duck_buses)
    THEN 0 ELSE GainOne

\* Bus::UpdateDuckGain(delta_time): toward the target at the fixed rate,
\* clamped to [0, 1].
UpdateDuckGain(cnt, dg, b, delta_time) ==
    LET target == DuckTarget(cnt, b)
        step == DuckRate * delta_time
    IN  IF dg[b] > target THEN Max(target, dg[b] - step)
        ELSE Min(target, dg[b] + step)

RECURSIVE UpdateGain(_, _, _, _)
RECURSIVE UpdateChildren(_, _, _, _, _)
\* Bus::UpdateGain(parent_gain): gain = def gain * parent gain * duck gain,
\* then the children with this gain as their parent gain.
UpdateGain(g, dg, b, parent_gain) ==
    LET mine == (BusDef(b).gain * parent_gain * dg[b]) \div (GainOne * GainOne)
    IN  UpdateChildren([g EXCEPT ![b] = mine], dg, BusDef(b).child_buses, 1, mine)

UpdateChildren(g, dg, children, i, parent_gain) ==
    IF i > Len(children) THEN g
    ELSE UpdateChildren(UpdateGain(g, dg, children[i], parent_gain), dg,
                        children, i + 1, parent_gain)

\* A parent gain of the master that ignores mute.
MasterParentGain_IgnoreMute(mute, master_gain) == master_gain

\* A parent gain of the master that ignores the master gain.
MasterParentGain_Unit(mute, master_gain) == IF mute THEN 0 ELSE GainOne

\* Line 455: mute_ ? 0.0f : master_gain_
MasterParentGain(mute, master_gain) == IF mute THEN 0 ELSE master_gain

RECURSIVE PushVolumes(_, _, _, _)
\* Lines 457-461: SetChannelGain of every playing sound to its bus's gain.
PushVolumes(vol, ps, g, i) ==
    IF i > Len(ps) THEN vol
    ELSE PushVolumes(
             [vol EXCEPT ![ps[i].channel_id] =
                  MixVolume(g[CollectionBus(ps[i].sound_collection)])],
             ps, g, i + 1)

\* AudioEngine::AdvanceFrame(world_time): the duck gains, the bus gains from
\* the master down, and the volume of every record of the table. The table
\* itself and the sound counters are not touched.
AdvanceFrame ==
    /\ ~aborted
    /\ \E world_time \in world_time_ .. MaxTime :
          LET delta_time == world_time - world_time_
              dg == [b \in Buses |->
                        UpdateDuckGain(sound_counter, duck_gain, b, delta_time)]
              g == UpdateGain(gain, dg, "master",
                              MasterParentGain(mute_, master_gain_))
          IN  /\ world_time_' = world_time
              /\ duck_gain' = dg
              /\ gain' = g
              /\ volume' = PushVolumes(volume, playing_sounds_, g, 1)
              /\ last' = LastNone
    /\ UNCHANGED <<playing_sounds_, sound_counter, capacity, mute_,
                   master_gain_, bankVars, mixer, aborted, otherVars>>

\* The master gains a caller sets: 0.5 and 1.0.
MasterGains == {GainOne \div 2, GainOne}

\* AudioEngine::set_mute(mute)
SetMute ==
    /\ ~aborted
    /\ \E mute \in BOOLEAN : mute_' = mute
    /\ last' = LastNone
    /\ UNCHANGED <<playVars, duck_gain, gain, master_gain_, bankVars,
                   world_time_, aborted, otherVars>>

\* AudioEngine::set_master_gain(master_gain)
SetMasterGain ==
    /\ ~aborted
    /\ \E master_gain \in MasterGains : master_gain_' = master_gain
    /\ last' = LastNone
    /\ UNCHANGED <<playVars, duck_gain, gain, mute_, bankVars, world_time_,
                   aborted, otherVars>>

(* ----------------------------- sound banks ----------------------------- *)

\* SoundBank::Initialize: every collection the bank lists is registered in
\* the collection map if it is not there yet, and its counter incremented.
Initialize(cm, cr, bank) ==
    [cm |-> cm \cup BankCollections(bank),
     cr |-> [c \in Collections |->
                IF c \in BankCollections(bank) THEN cr[c] + 1 ELSE cr[c]]]

\* SoundBank::Deinitialize: the counter of every registered collection the
\* bank lists is decremented; a collection whose counter reaches zero leaves
\* the collection map.
Deinitialize(cm, cr, bank) ==
    LET mine == BankCollections(bank) \cap cm
    IN  [cm |-> cm \ {c \in mine : cr[c] - 1 = 0},
         cr |-> [c \in Collections |-> IF c \in mine THEN cr[c] - 1 ELSE cr[c]]]

\* Whether the bank has been loaded more often than unloaded, by the calls
\* made so far.
Live(h, bank) == h.loads[bank] > h.unloads[bank]

\* AudioEngine::LoadSoundBank(filename); ok is what SoundBank::Initialize
\* answers for a bank that is not registered yet.
LoadSoundBank ==
    /\ ~aborted
    /\ \E filename \in Banks, ok \in BOOLEAN :
          /\ hist.loads[filename] < MaxLoads
          /\ IF filename \notin sound_bank_map_
             THEN LET init == Initialize(collection_map_, coll_ref, filename)
                  IN  /\ sound_bank_map_' = sound_bank_map_ \cup {filename}
                      /\ collection_map_' = IF ok THEN init.cm ELSE collection_map_
                      /\ coll_ref' = IF ok THEN init.cr ELSE coll_ref
                      /\ bank_ref' = IF ok
                                     THEN [bank_ref EXCEPT ![filename] = @ + 1]
                                     ELSE bank_ref
                      /\ hist' = IF ok
                                 THEN [hist EXCEPT !.loads[filename] = @ + 1]
                                 ELSE [hist EXCEPT !.failed = TRUE]
                      /\ last' = [LastNone EXCEPT !.op = "LoadSoundBank",
                                     !.arg = filename,
                                     !.ret = IF ok THEN 1 ELSE 0]
             ELSE /\ ok
                  /\ bank_ref' = [bank_ref EXCEPT ![filename] = @ + 1]
                  /\ hist' = [hist EXCEPT !.loads[filename] = @ + 1]
                  /\ last' = [LastNone EXCEPT !.op = "LoadSoundBank",
                                 !.arg = filename, !.ret = 1]
                  /\ UNCHANGED <<sound_bank_map_, collection_map_, coll_ref>>
    /\ UNCHANGED <<playVars, busVars, world_time_, aborted, otherVars>>

\* A test that releases the bank one unload early as well.
ShouldDeinitialize_Early(decremented) == decremented <= 1

\* Line 176: ref_counter()->Decrement() == 0
ShouldDeinitialize(decremented) == decremented = 0

\* AudioEngine::UnloadSoundBank(filename). For a bank that is not in the
\* map the diagnostic is logged and assert(0) stops the program; a build
\* without assertions goes on to dereference the end iterator, after which
\* the program is not followed any further either.
UnloadSoundBank ==
    /\ ~aborted
    /\ \E filename \in Banks :
          /\ bank_ref[filename] > -MaxLoads
          /\ IF filename \notin sound_bank_map_
             THEN /\ aborted' = TRUE
                  /\ last' = [LastNone EXCEPT !.op = "UnloadSoundBank",
                                 !.arg = filename, !.branch = "not loaded"]
                  /\ hist' = [hist EXCEPT !.misuse = TRUE]
                  /\ UNCHANGED <<sound_bank_map_, bank_ref, collection_map_,
                                 coll_ref>>
             ELSE LET decremented == bank_ref[filename] - 1
                      deinit == ShouldDeinitialize(decremented)
                      d == Deinitialize(collection_map_, coll_ref, filename)
                  IN  /\ bank_ref' = [bank_ref EXCEPT ![filename] = decremented]
                      /\ collection_map_' = IF deinit THEN d.cm
                                            ELSE collection_map_
                      /\ coll_ref' = IF deinit THEN d.cr ELSE coll_ref
                      /\ hist' = IF Live(hist, filename)
                                 THEN [hist EXCEPT !.unloads[filename] = @ + 1]
                                 ELSE [hist EXCEPT !.misuse = TRUE]
                      /\ last' = [LastNone EXCEPT !.op = "UnloadSoundBank",
                                     !.arg = filename, !.deinit = deinit]
                      /\ UNCHANGED <<sound_bank_map_, aborted>>
    /\ UNCHANGED <<playVars, busVars, world_time_, otherVars>>

(* ------------------------ AudioEngine::Initialize ---------------------- *)

\* The BusDefList of the engine the other sections run on.
FixtureBusDefList ==
    [i \in DOMAIN BusNames |->
        [name |-> BusNames[i],
         child_buses |-> BusDef(BusNames[i]).child_buses,
         duck_buses |-> BusDef(BusNames[i]).duck_buses]]

\* AudioEngine::FindBus(name): the first bus of that name, or nullptr (0).
FindBus(list, name) ==
    LET hits == {i \in DOMAIN list : list[i].name = name}
    IN  IF hits = {} THEN 0
        ELSE CHOOSE i \in hits : \A j \in hits : i <= j

RECURSIVE PopulateBuses(_, _, _, _)
\* AudioEngine::PopulateBuses: resolves the names from the i-th on, appending
\* to output; fails at the first name that FindBus does not know.
PopulateBuses(list, child_name_list, i, output) ==
    IF i > Len(child_name_list) THEN [ok |-> TRUE, output |-> output]
    ELSE LET bus == FindBus(list, child_name_list[i])
         IN  IF bus # 0
             THEN PopulateBuses(list, child_name_list, i + 1,
                                Append(output, bus))
             ELSE [ok |-> FALSE, output |-> output]

RECURSIVE PopulateAll(_, _, _)
\* Lines 127-137: the children and ducking pointers of every bus from the
\* i-th on; Initialize returns false at the first list that does not resolve.
PopulateAll(list, buses, i) ==
    IF i > Len(list) THEN [ok |-> TRUE, buses |-> buses]
    ELSE LET c == PopulateBuses(list, list[i].child_buses, 1, <<>>)
             b1 == [buses EXCEPT ![i].child_buses = c.output]
             d == PopulateBuses(list, list[i].duck_buses, 1, <<>>)
             b2 == [b1 EXCEPT ![i].duck_buses = d.output]
         IN  IF ~c.ok THEN [ok |-> FALSE, buses |-> b1]
             ELSE IF ~d.ok THEN [ok |-> FALSE, buses |-> b2]
             ELSE PopulateAll(list, b2, i + 1)

\* Lines 122-125: one Bus per definition, its pointer lists empty.
NewBuses(list) ==
    [i \in DOMAIN list |-> [child_buses |-> <<>>, duck_buses |-> <<>>]]

\* AudioEngine::Initialize(config); audio_ok and file_ok are what
\* Mix_OpenAudio and the load of buses.bin answer.
AudioEngineInitialize ==
    /\ initialized = "pending"
    /\ \E audio_ok \in BOOLEAN, file_ok \in BOOLEAN :
          LET r == PopulateAll(buses_source_, NewBuses(buses_source_), 1)
              master == FindBus(buses_source_, "master")
              success == audio_ok /\ file_ok /\ r.ok /\ master # 0
          IN  /\ buses_' = IF audio_ok /\ file_ok THEN r.buses ELSE buses_
              /\ master_bus_' = IF audio_ok /\ file_ok /\ r.ok THEN master
                                ELSE master_bus_
              /\ capacity' = IF audio_ok THEN NumChannels ELSE capacity
              /\ mute_' = IF success THEN FALSE ELSE mute_
              /\ master_gain_' = IF success THEN GainOne ELSE master_gain_
              /\ initialized' = IF success THEN "true" ELSE "false"
    /\ last' = LastNone
    /\ UNCHANGED <<playing_sounds_, sound_counter, duck_gain, gain,
                   world_time_, bankVars, mixer, volume, aborted,
                   buses_source_, chanVars, listVars>>

\* The engine's buses after a successful Initialize on the fixture list.
EngineInitialized ==
    /\ buses_source_ = FixtureBusDefList
    /\ buses_ = PopulateAll(FixtureBusDefList, NewBuses(FixtureBusDefList),
                            1).buses
    /\ master_bus_ = FindBus(FixtureBusDefList, "master")
    /\ initialized = "true"

(* ------------------------------- Channel ------------------------------- *)

\* channel.cpp: the duration of the fade a Stop starts, in milliseconds.
kFadeOutDurationMs == 10

\* The handles a caller holds and the voices they may refer to.
Handles == {"h1", "h2"}
Voices == {"v1", "v2"}
NullState == "nullptr"

\* Gains of a voice: silence, the smallest gain above it, and full gain.
VoiceGains == {0, 1, GainOne}

\* Positions a caller may give to a voice.
Locations == {0, 1}

\* ChannelInternalState::Halt: the voice stops at once.
StateHalt(st) == [st EXCEPT !.status = "halted", !.fade_ms = 0]

\* ChannelInternalState::FadeOut: the voice fades for ms milliseconds.
StateFadeOut(st, ms) == [st EXCEPT !.status = "fading", !.fade_ms = ms]

\* ChannelInternalState::Playing.
StatePlaying(st) == st.status # "halted"

\* One call made on a ChannelInternalState.
MixerCall(call, ms) == [call |-> call, ms |-> ms]

\* The effect of a list of calls on a voice, in order.
RECURSIVE ApplyCalls(_, _)
ApplyCalls(st, calls) ==
    IF calls = <<>> THEN st
    ELSE ApplyCalls(IF Head(calls).call = "Halt" THEN StateHalt(st)
                    ELSE StateFadeOut(st, Head(calls).ms),
                    Tail(calls))

ChannelStopCalls_AlwaysFade(g) == <<MixerCall("FadeOut", kFadeOutDurationMs)>>

\* Channel::Stop after its assertion: the calls it makes on a state whose
\* gain is g.
ChannelStopCalls(g) ==
    IF g = 0
    THEN <<MixerCall("Halt", 0)>>
    ELSE <<MixerCall("FadeOut", kFadeOutDurationMs)>>

\* Channel::Valid.
Valid(h) == state_[h] # NullState

ChanLastNone ==
    [op |-> "none", handle |-> "none", valid |-> TRUE, state |-> NullState,
     gain |-> 0, calls |-> <<>>, ret |-> 0]

ChanLast(op, h, calls, ret) ==
    [op |-> op, handle |-> h, valid |-> Valid(h), state |-> state_[h],
     gain |-> IF Valid(h) THEN voice[state_[h]].gain ELSE 0,
     calls |-> calls, ret |-> ret]

\* assert(Valid()) on a handle without a state: the assertion stops the
\* program; compiled without assertions the call reads through the null
\* state_, which stops it as well. Nothing is asked of any voice.
InvalidHandleCall(op, h) ==
    /\ ~Valid(h)
    /\ aborted' = TRUE
    /\ chan_last' = ChanLast(op, h, <<>>, 0)
    /\ UNCHANGED <<state_, voice>>

\* Channel(ChannelInternalState*): a handle is bound to a voice, or to none
\* (kInvalidChannel).
ChannelBind ==
    /\ ~aborted
    /\ \E h \in Handles, v \in Voices \cup {NullState} :
          /\ state_' = [state_ EXCEPT ![h] = v]
          /\ chan_last' = ChanLastNone
    /\ UNCHANGED <<voice, aborted, engineVars, listVars>>

\* Channel::Clear.
ChannelClear ==
    /\ ~aborted
    /\ \E h \in Handles :
          /\ state_' = [state_ EXCEPT ![h] = NullState]
          /\ chan_last' = ChanLastNone
    /\ UNCHANGED <<voice, aborted, engineVars, listVars>>

\* Channel::Playing.
ChannelPlaying ==
    /\ ~aborted
    /\ \E h \in Handles :
          \/ InvalidHandleCall("Playing", h)
          \/ /\ Valid(h)
             /\ chan_last' = ChanLast("Playing", h, <<>>,
                                IF StatePlaying(voice[state_[h]]) THEN 1 ELSE 0)
             /\ UNCHANGED <<state_, voice, aborted>>
    /\ UNCHANGED <<engineVars, listVars>>

\* Channel::Stop.
ChannelStop ==
    /\ ~aborted
    /\ \E h \in Handles :
          \/ InvalidHandleCall("Stop", h)
          \/ /\ Valid(h)
             /\ LET calls == ChannelStopCalls(voice[state_[h]].gain)
                IN  /\ voice' = [voice EXCEPT
                                   ![state_[h]] = ApplyCalls(@, calls)]
                    /\ chan_last' = ChanLast("Stop", h, calls, 0)
             /\ UNCHANGED <<state_, aborted>>
    /\ UNCHANGED <<engineVars, listVars>>

\* Channel::Location.
ChannelLocation ==
    /\ ~aborted
    /\ \E h \in Handles :
          \/ InvalidHandleCall("Location", h)
          \/ /\ Valid(h)
             /\ chan_last' = ChanLast("Location", h, <<>>,
                                      voice[state_[h]].location)
             /\ UNCHANGED <<state_, voice, aborted>>
    /\ UNCHANGED <<engineVars, listVars>>

\* Channel::SetLocation.
ChannelSetLocation ==
    /\ ~aborted
    /\ \E h \in Handles, loc \in Locations :
          \/ InvalidHandleCall("SetLocation", h)
          \/ /\ Valid(h)
             /\ voice' = [voice EXCEPT ![state_[h]].location = loc]
             /\ chan_last' = ChanLast("SetLocation", h, <<>>, 0)
             /\ UNCHANGED <<state_, aborted>>
    /\ UNCHANGED <<engineVars, listVars>>

\* The engine gives a voice another gain.
StateSetGain ==
    /\ ~aborted
    /\ \E v \in Voices, g \in VoiceGains :
          /\ voice[v].gain # g
          /\ voice' = [voice EXCEPT ![v].gain = g]
    /\ chan_last' = ChanLastNone
    /\ UNCHANGED <<state_, aborted, engineVars, listVars>>

\* The mixer: a fade comes to its end, or a halted voice is played again.
StateStatusChange ==
    /\ ~aborted
    /\ \E v \in Voices :
          \/ /\ voice[v].status = "fading"
             /\ voice' = [voice EXCEPT ![v] = StateHalt(@)]
          \/ /\ voice[v].status = "halted"
             /\ voice' = [voice EXCEPT ![v].status = "playing"]
    /\ chan_last' = ChanLastNone
    /\ UNCHANGED <<state_, aborted, engineVars, listVars>>

\* No handle refers to a voice; both voices play at full gain.
ChannelInit ==
    /\ state_ = [h \in Handles |-> NullState]
    /\ voice = [v \in Voices |->
                  [gain |-> GainOne, status |-> "playing", location |-> 0,
                   fade_ms |-> 0]]
    /\ chan_last = ChanLastNone

(* -------------------------- IntrusiveListNode -------------------------- *)

\* The nodes a program links: the list head (node 0) and MaxItems items.
MaxItems == 4
ListHead == 0
Items == 1 .. MaxItems
Nodes == {ListHead} \cup Items

\* IntrusiveListNode::GetNext.
GetNext(nx, node) == nx[node]

\* IntrusiveListNode::GetTerminator.
GetTerminator(node) == node

\* IntrusiveListNode::IsEmpty.
IsEmpty(nx, node) == GetNext(nx, node) = node

\* IntrusiveListNode::InList.
InList(nx, node) == ~IsEmpty(nx, node)

InsertBeforeLinks_Prepend(nx, pv, this, node) ==
    LET n1 == [nx EXCEPT ![node] = nx[this]]
        p1 == [pv EXCEPT ![node] = this]
        p2 == [p1 EXCEPT ![n1[this]] = node]
        n2 == [n1 EXCEPT ![this] = node]
    IN  [next |-> n2, prev |-> p2]

\* IntrusiveListNode::InsertBefore after its assertion: the four pointer
\* writes, in the order of the code.
InsertBeforeLinks(nx, pv, this, node) ==
    LET n1 == [nx EXCEPT ![node] = this]
        p1 == [pv EXCEPT ![node] = pv[this]]
        n2 == [n1 EXCEPT ![p1[this]] = node]
        p2 == [p1 EXCEPT ![this] = node]
    IN  [next |-> n2, prev |-> p2]

\* IntrusiveListNode::InsertAfter after its assertion.
InsertAfterLinks(nx, pv, this, node) ==
    LET n1 == [nx EXCEPT ![node] = nx[this]]
        p1 == [pv EXCEPT ![node] = this]
        p2 == [p1 EXCEPT ![n1[this]] = node]
        n2 == [n1 EXCEPT ![this] = node]
    IN  [next |-> n2, prev |-> p2]

\* A Remove that unlinks the node from its neighbours and leaves the node's
\* own pointers as they were.
RemoveLinks_NoInitialize(nx, pv, this) ==
    LET n1 == [nx EXCEPT ![pv[this]] = nx[this]]
        p1 == [pv EXCEPT ![n1[this]] = pv[this]]
    IN  [next |-> n1, prev |-> p1]

\* IntrusiveListNode::Remove, its Initialize included.
RemoveLinks(nx, pv, this) ==
    LET n1 == [nx EXCEPT ![pv[this]] = nx[this]]
        p1 == [pv EXCEPT ![n1[this]] = pv[this]]
    IN  [next |-> [n1 EXCEPT ![this] = this],
         prev |-> [p1 EXCEPT ![this] = this]]

RECURSIVE Walk(_, _, _, _)
\* The loop "for (node = GetNext(); node != terminator; node =
\* node->GetNext())": the nodes it visits. A walk that has not met the
\* terminator after every node was visited never meets it; it is cut with
\* the mark -1.
Walk(nx, node, terminator, fuel) ==
    IF node = terminator THEN <<>>
    ELSE IF fuel = 0 THEN <<-1>>
    ELSE <<node>> \o Walk(nx, GetNext(nx, node), terminator, fuel - 1)

\* The traversal of a list from its head.
Traversal(nx, list) ==
    Walk(nx, GetNext(nx, list), GetTerminator(list), Cardinality(Nodes))

\* IntrusiveListNode::GetLength; -1 stands for a loop that never ends.
GetLength(nx, list) ==
    LET visited == Traversal(nx, list)
    IN  IF \E i \in DOMAIN visited : visited[i] = -1 THEN -1
        ELSE Len(visited)

\* History: the call just made, and the items inserted before the head since
\* the head was last empty, as long as nothing else was done to any node
\* since then.
ListHist(op, this, node, links) ==
    LET call == [op |-> op, this |-> this, node |-> node]
    IN  IF /\ op = "InsertBefore"
           /\ list_hist.pure
           /\ this = ListHead
           /\ node \in Items
           /\ ~InList(next_, node)
        THEN call @@ [appended |-> Append(list_hist.appended, node),
                      pure |-> TRUE]
        ELSE IF /\ links.next[ListHead] = ListHead
                /\ links.prev[ListHead] = ListHead
        THEN call @@ [appended |-> <<>>, pure |-> TRUE]
        ELSE call @@ [appended |-> list_hist.appended, pure |-> FALSE]

\* assert(!node->InList()) on a linked node: the assertion stops the
\* program, or, compiled without assertions, the writes go ahead on the
\* linked node. A run that has broken the precondition is followed no
\* further.
LinkedNodeCall(op, this, node, links) ==
    /\ InList(next_, node)
    /\ aborted' = TRUE
    /\ \/ UNCHANGED listVars
       \/ /\ next_' = links.next
          /\ prev_' = links.prev
          /\ list_hist' = ListHist(op, this, node, links)

\* this->InsertBefore(node).
InsertBefore ==
    /\ ~aborted
    /\ \E this \in Nodes, node \in Nodes :
          LET links == InsertBeforeLinks(next_, prev_, this, node)
          IN  \/ LinkedNodeCall("InsertBefore", this, node, links)
              \/ /\ ~InList(next_, node)
                 /\ next_' = links.next
                 /\ prev_' = links.prev
                 /\ list_hist' = ListHist("InsertBefore", this, node, links)
                 /\ UNCHANGED aborted
    /\ UNCHANGED <<engineVars, chanVars>>

\* this->InsertAfter(node).
InsertAfter ==
    /\ ~aborted
    /\ \E this \in Nodes, node \in Nodes :
          LET links == InsertAfterLinks(next_, prev_, this, node)
          IN  \/ LinkedNodeCall("InsertAfter", this, node, links)
              \/ /\ ~InList(next_, node)
                 /\ next_' = links.next
                 /\ prev_' = links.prev
                 /\ list_hist' = ListHist("InsertAfter", this, node, links)
                 /\ UNCHANGED aborted
    /\ UNCHANGED <<engineVars, chanVars>>

\* this->Remove().
Remove ==
    /\ ~aborted
    /\ \E this \in Nodes :
          LET links == RemoveLinks(next_, prev_, this)
          IN  /\ next_' = links.next
              /\ prev_' = links.prev
              /\ list_hist' = ListHist("Remove", this, this, links)
    /\ UNCHANGED <<aborted, engineVars, chanVars>>

\* IntrusiveListNode(): every node is initialized, linked to itself.
ListInit ==
    /\ next_ = [n \in Nodes |-> n]
    /\ prev_ = [n \in Nodes |-> n]
    /\ list_hist = [op |-> "none", this |-> ListHead, node |-> ListHead,
                    appended |-> <<>>, pure |-> TRUE]

(* ------------------------ released collections ------------------------ *)

\* A record of the table points at a collection that SoundBank::Deinitialize
\* has released. Whatever reads through the record next (the destructor or
\* the sort in PlaySound, the volume push of AdvanceFrame) reads released
\* memory: it finds the old contents, which is what PlaySound and
\* AdvanceFrame go by, or it faults, which is this step.
DanglingUse ==
    /\ ~aborted
    /\ \E i \in DOMAIN playing_sounds_ :
          playing_sounds_[i].sound_collection \notin collection_map_
    /\ aborted' = TRUE
    /\ last' = LastNone
    /\ UNCHANGED <<playVars, busVars, bankVars, world_time_, otherVars>>

(* ---------------------------- specifications --------------------------- *)

\* The engine after AudioEngine::Initialize: no bank loaded, nothing playing.
Init ==
    /\ playing_sounds_ = <<>>
    /\ capacity = NumChannels
    /\ sound_counter = [b \in Buses |-> 0]
    /\ duck_gain = [b \in Buses |-> GainOne]
    /\ gain = [b \in Buses |-> GainOne]
    /\ world_time_ = 0
    /\ mute_ = FALSE
    /\ master_gain_ = GainOne
    /\ sound_bank_map_ = {}
    /\ bank_ref = [b \in Banks |-> 0]
    /\ collection_map_ = {}
    /\ coll_ref = [c \in Collections |-> 0]
    /\ mixer = [c \in Channels |-> "idle"]
    /\ volume = [c \in Channels |-> MIX_MAX_VOLUME]
    /\ aborted = FALSE
    /\ EngineInitialized
    /\ ChannelInit
    /\ ListInit
    /\ hist = [loads |-> [b \in Banks |-> 0], unloads |-> [b \in Banks |-> 0],
               failed |-> FALSE, misuse |-> FALSE]
    /\ last = LastNone

Next ==
    \/ LoadSoundBank
    \/ UnloadSoundBank
    \/ PlaySound
    \/ PlaySoundByName
    \/ Stop
    \/ MixerFinish
    \/ AdvanceFrame
    \/ SetMute
    \/ SetMasterGain
    \/ DanglingUse
    \/ PlaySoundRacing
    \/ ChannelBind
    \/ ChannelClear
    \/ ChannelPlaying
    \/ ChannelStop
    \/ ChannelLocation
    \/ ChannelSetLocation
    \/ StateSetGain
    \/ StateStatusChange
    \/ InsertBefore
    \/ InsertAfter
    \/ Remove

Spec == Init /\ [][Next]_vars

\* The banks alone: loads and unloads on an engine that plays nothing.
NextBank ==
    \/ LoadSoundBank
    \/ UnloadSoundBank

SpecBank == Init /\ [][NextBank]_vars

\* The engine after LoadSoundBank("A") and UnloadSoundBank("A"), MaxLoads
\* times each, and one LoadSoundBank("B"): bank A is registered with its
\* collections released, bank B is loaded once.
InitLive ==
    LET b == Initialize({}, [c \in Collections |-> 0], "B")
    IN  /\ playing_sounds_ = <<>>
        /\ capacity = NumChannels
        /\ sound_counter = [x \in Buses |-> 0]
        /\ duck_gain = [x \in Buses |-> GainOne]
        /\ gain = [x \in Buses |-> GainOne]
        /\ world_time_ = 0
        /\ mute_ = FALSE
        /\ master_gain_ = GainOne
        /\ sound_bank_map_ = {"A", "B"}
        /\ bank_ref = [x \in Banks |-> IF x = "B" THEN 1 ELSE 0]
        /\ collection_map_ = b.cm
        /\ coll_ref = b.cr
        /\ mixer = [c \in Channels |-> "idle"]
        /\ volume = [c \in Channels |-> MIX_MAX_VOLUME]
        /\ aborted = FALSE
        /\ EngineInitialized
        /\ ChannelInit
        /\ ListInit
        /\ hist = [loads |-> [x \in Banks |-> IF x = "B" THEN 1 ELSE MaxLoads],
                   unloads |-> [x \in Banks |->
                                  IF x = "B" THEN 0 ELSE MaxLoads],
                   failed |-> FALSE, misuse |-> FALSE]
        /\ last = [LastNone EXCEPT !.op = "LoadSoundBank", !.arg = "B",
                      !.ret = 1]

\* Plays and frames interleaved with loads and unloads of the banks.
NextLive ==
    \/ LoadSoundBank
    \/ UnloadSoundBank
    \/ PlaySoundByName
    \/ AdvanceFrame
    \/ DanglingUse

SpecLive == InitLive /\ [][NextLive]_vars

\* The Channel handles alone, with the voices they refer to.
NextChannel ==
    \/ ChannelBind
    \/ ChannelClear
    \/ ChannelPlaying
    \/ ChannelStop
    \/ ChannelLocation
    \/ ChannelSetLocation
    \/ StateSetGain
    \/ StateStatusChange

SpecChannel == Init /\ [][NextChannel]_vars

\* The list nodes alone.
NextList ==
    \/ InsertBefore
    \/ InsertAfter
    \/ Remove

SpecList == Init /\ [][NextList]_vars

\* The engine after Initialize, LoadSoundBank("A") and LoadSoundBank("B"),
\* both successful: every collection is registered.
InitPlay ==
    LET a == Initialize({}, [c \in Collections |-> 0], "A")
        b == Initialize(a.cm, a.cr, "B")
    IN  /\ playing_sounds_ = <<>>
        /\ capacity = NumChannels
        /\ sound_counter = [x \in Buses |-> 0]
        /\ duck_gain = [x \in Buses |-> GainOne]
        /\ gain = [x \in Buses |-> GainOne]
        /\ world_time_ = 0
        /\ mute_ = FALSE
        /\ master_gain_ = GainOne
        /\ sound_bank_map_ = Banks
        /\ bank_ref = [x \in Banks |-> 1]
        /\ collection_map_ = b.cm
        /\ coll_ref = b.cr
        /\ mixer = [c \in Channels |-> "idle"]
        /\ volume = [c \in Channels |-> MIX_MAX_VOLUME]
        /\ aborted = FALSE
        /\ EngineInitialized
        /\ ChannelInit
        /\ ListInit
        /\ hist = [loads |-> [x \in Banks |-> 1],
                   unloads |-> [x \in Banks |-> 0],
                   failed |-> FALSE, misuse |-> FALSE]
        /\ last = [LastNone EXCEPT !.op = "LoadSoundBank", !.arg = "B",
                      !.ret = 1]

\* Playing on a loaded engine: no bank is loaded or unloaded any more.
NextPlay ==
    \/ PlaySound
    \/ PlaySoundByName
    \/ Stop
    \/ MixerFinish
    \/ AdvanceFrame

SpecPlay == InitPlay /\ [][NextPlay]_vars

\* The engine after Initialize and a successful LoadSoundBank("B").
InitMix ==
    LET b == Initialize({}, [c \in Collections |-> 0], "B")
    IN  /\ playing_sounds_ = <<>>
        /\ capacity = NumChannels
        /\ sound_counter = [x \in Buses |-> 0]
        /\ duck_gain = [x \in Buses |-> GainOne]
        /\ gain = [x \in Buses |-> GainOne]
        /\ world_time_ = 0
        /\ mute_ = FALSE
        /\ master_gain_ = GainOne
        /\ sound_bank_map_ = {"B"}
        /\ bank_ref = [x \in Banks |-> IF x = "B" THEN 1 ELSE 0]
        /\ collection_map_ = b.cm
        /\ coll_ref = b.cr
        /\ mixer = [c \in Channels |-> "idle"]
        /\ volume = [c \in Channels |-> MIX_MAX_VOLUME]
        /\ aborted = FALSE
        /\ EngineInitialized
        /\ ChannelInit
        /\ ListInit
        /\ hist = [loads |-> [x \in Banks |-> IF x = "B" THEN 1 ELSE 0],
                   unloads |-> [x \in Banks |-> 0],
                   failed |-> FALSE, misuse |-> FALSE]
        /\ last = [LastNone EXCEPT !.op = "LoadSoundBank", !.arg = "B",
                      !.ret = 1]

\* Mixing on a loaded engine: sounds are started, the caller mutes, sets the
\* master gain and advances the frames.
NextMix ==
    \/ PlaySoundByName
    \/ AdvanceFrame
    \/ SetMute
    \/ SetMasterGain

SpecMix == InitMix /\ [][NextMix]_vars

\* Plays on an engine whose mixer ends voices between the calls and during
\* them.
NextRace ==
    \/ PlaySound
    \/ PlaySoundRacing
    \/ MixerFinish

SpecRace == InitMix /\ [][NextRace]_vars

\* Bus names a definition list may mention; "ghost" names no bus of a list.
ListedNames == {"master", "main", "sfx", "music", "ghost"}

\* The lists of at most MaxChildren names.
NameLists ==
    UNION {[1 .. n -> ListedNames \ {"main"}] : n \in 0 .. MaxChildren}

\* The bus definition lists Initialize is run on: three buses, the first
\* named "master" or not, with any child lists, the second ducking nothing
\* or a bus that does not exist.
BusDefLists ==
    {<<[name |-> n, child_buses |-> c1, duck_buses |-> <<>>],
       [name |-> "sfx", child_buses |-> c2, duck_buses |-> d],
       [name |-> "music", child_buses |-> c3, duck_buses |-> <<>>]>> :
         n \in {"master", "main"}, c1 \in NameLists, c2 \in NameLists,
         c3 \in NameLists, d \in {<<>>, <<"ghost">>}}

\* A constructed engine before Initialize, with buses.bin holding any of
\* the lists.
InitEngine ==
    /\ playing_sounds_ = <<>>
    /\ capacity = 0
    /\ sound_counter = [b \in Buses |-> 0]
    /\ duck_gain = [b \in Buses |-> GainOne]
    /\ gain = [b \in Buses |-> GainOne]
    /\ world_time_ = 0
    /\ mute_ = FALSE
    /\ master_gain_ = GainOne
    /\ sound_bank_map_ = {}
    /\ bank_ref = [b \in Banks |-> 0]
    /\ collection_map_ = {}
    /\ coll_ref = [c \in Collections |-> 0]
    /\ mixer = [c \in Channels |-> "idle"]
    /\ volume = [c \in Channels |-> MIX_MAX_VOLUME]
    /\ aborted = FALSE
    /\ buses_source_ \in BusDefLists
    /\ buses_ = <<>>
    /\ master_bus_ = 0
    /\ initialized = "pending"
    /\ ChannelInit
    /\ ListInit
    /\ hist = [loads |-> [b \in Banks |-> 0], unloads |-> [b \in Banks |-> 0],
               failed |-> FALSE, misuse |-> FALSE]
    /\ last = LastNone

NextEngine ==
    \/ AudioEngineInitialize

SpecEngine == InitEngine /\ [][NextEngine]_vars

(* ------------------------ terms of the properties ---------------------- *)

\* The records of the table whose channel the mixer reports as playing: the
\* table the prune step is to leave.
PrunedSet ==
    {playing_sounds_[i] : i \in {j \in DOMAIN playing_sounds_ :
                                    mixer[playing_sounds_[j].channel_id] # "idle"}}

Range(ps) == {ps[i] : i \in DOMAIN ps}

\* How many records of the table are bound to bus b.
CountOn(ps, b) ==
    Cardinality({i \in DOMAIN ps : CollectionBus(ps[i].sound_collection) = b})

IsStream(c) == SoundCollectionDef(c).stream # 0

Priority(c) == SoundCollectionDef(c).priority

\* All N buffer channels are busy at the mixer.
AllBusy == \A c \in BufferChannels : mixer[c] # "idle"

\* The playing records that rank strictly below a request for collection c.
LowerThan(c) ==
    {e \in PrunedSet : ~IsStream(e.sound_collection)
                       /\ Priority(e.sound_collection) < Priority(c)}

\* Record x ranks strictly below record v: a buffer sound below a stream,
\* otherwise the lower numeric priority.
RanksLower(x, v) ==
    /\ ~IsStream(x.sound_collection)
    /\ \/ IsStream(v.sound_collection)
       \/ Priority(x.sound_collection) < Priority(v.sound_collection)

StreamEntries(ps) == {i \in DOMAIN ps : ps[i].channel_id = kStreamChannel}

\* The step is a call of PlaySound for a registered buffer collection.
BufferPlayStep ==
    /\ last'.op = "PlaySound"
    /\ last'.arg \in Collections
    /\ ~IsStream(last'.arg)

(* --------------------------------- C1 ---------------------------------- *)

\* C1: for every bus, sound_counter equals the number of records of
\* playing_sounds_ whose collection is bound to that bus, in every state
\* between engine operations (plays, preemptions, stream replacements,
\* refusals, failed plays, mixer finishes, prunes, frames).
C1_ChannelAccounting ==
    \A b \in Buses : sound_counter[b] = CountOn(playing_sounds_, b)

\* A preemption has just sorted and popped a table that had been reallocated
\* to hold the stream record; two sounds play on sfx and one on music.
C1_Witness ==
    /\ last.op = "PlaySound"
    /\ last.branch = "preempt"
    /\ last.played = "ok"
    /\ capacity > NumChannels
    /\ Len(playing_sounds_) = NumChannels + 1
    /\ sound_counter["sfx"] = 2
    /\ sound_counter["music"] = 1

(* --------------------------------- C2 ---------------------------------- *)

\* C2: when PlaySound is called for a buffer collection while all buffer
\* channels are busy and some playing sound ranks strictly below the request
\* (and the mixer does not refuse the play), the table afterwards holds the
\* new sound and lacks exactly one prior record, whose priority is strictly
\* lower than the new one's; every other prior record is still there.
C2_PreemptionSucceeds ==
    [][(/\ BufferPlayStep
        /\ AllBusy
        /\ LowerThan(last'.arg) # {}
        /\ last'.played # "failed")
       => LET gone == PrunedSet \ Range(playing_sounds_')
              new == Range(playing_sounds_') \ PrunedSet
          IN  /\ Cardinality(gone) = 1
              /\ gone \subseteq LowerThan(last'.arg)
              /\ \E e \in new : e.sound_collection = last'.arg
              /\ Cardinality(new) = 1]_vars

(* --------------------------------- C3 ---------------------------------- *)

\* C3: when PlaySound is called for a buffer collection while all buffer
\* channels are busy and no playing sound ranks strictly below the request
\* (equal priority is not lower), it returns kInvalidChannel, halts and
\* starts nothing at the mixer, leaves the set of records as the prune step
\* left it and leaves every sound counter at its value after the prune.
C3_Refusal ==
    [][(/\ BufferPlayStep
        /\ AllBusy
        /\ LowerThan(last'.arg) = {})
       => /\ last'.ret = kInvalidChannel
          /\ last'.halted = {}
          /\ mixer' = mixer
          /\ Range(playing_sounds_') = PrunedSet
          /\ Len(playing_sounds_') = Cardinality(PrunedSet)
          /\ \A b \in Buses :
                sound_counter'[b] =
                    Cardinality({e \in PrunedSet :
                                    CollectionBus(e.sound_collection) = b})]_vars

\* A request was just refused with the pool full and a playing sound of the
\* request's own priority in the table.
C3_Witness ==
    /\ last.op = "PlaySound"
    /\ last.branch = "refuse"
    /\ last.ret = kInvalidChannel
    /\ AllBusy
    /\ Len(playing_sounds_) >= NumChannels
    /\ \E e \in Range(playing_sounds_) :
          /\ ~IsStream(e.sound_collection)
          /\ Priority(e.sound_collection) = Priority(last.arg)

(* --------------------------------- C4 ---------------------------------- *)

\* C4: whenever PlaySound preempts, the record it halts and removes is a
\* lowest-priority record of the table (no record that stays ranks strictly
\* below it), and the channel returned is the one that record occupied.
C4_VictimIsLowest ==
    [][(last'.op = "PlaySound" /\ last'.branch = "preempt")
       => \E v \in PrunedSet :
             /\ last'.halted = {v.channel_id}
             /\ last'.ret = v.channel_id
             /\ \A e \in PrunedSet \ {v} : ~RanksLower(e, v)]_vars

(* --------------------------------- C5 ---------------------------------- *)

\* At most one record of the table is on the stream channel.
AtMostOneStream == Cardinality(StreamEntries(playing_sounds_)) <= 1

\* A successful play of a stream collection while a stream is playing halts
\* the stream and leaves the new record as the only one on the stream channel.
StreamReplaced ==
    (/\ last'.op = "PlaySound"
     /\ last'.arg \in Collections
     /\ IsStream(last'.arg)
     /\ last'.played = "ok"
     /\ mixer[kStreamChannel] # "idle"
     /\ StreamEntries(playing_sounds_) # {})
    => /\ kStreamChannel \in last'.halted
       /\ \E i \in DOMAIN playing_sounds_' :
             /\ StreamEntries(playing_sounds_') = {i}
             /\ playing_sounds_'[i] =
                    PlayingSound(last'.arg, kStreamChannel, world_time_)

C6_PlayFailureReturnsInvalid ==
    [][(last'.op = "PlaySound" /\ last'.played = "failed")
       => /\ last'.ret = kInvalidChannel
          /\ Range(playing_sounds_') \subseteq Range(playing_sounds_)]_vars

(* --------------------------------- C7 ---------------------------------- *)

\* No load has failed and no bank was unloaded more often than loaded.
LegalHistory == ~hist.failed /\ ~hist.misuse

\* C7: after any sequence of loads and unloads in which every load succeeds
\* and no bank is unloaded more often than loaded, GetSoundHandle(C) is
\* non-null for every collection C listed by a bank that has been loaded
\* more often than unloaded, a bank loaded again after its count had dropped
\* to zero included.
C7_CollectionsLive ==
    LegalHistory
    => \A c \in Collections :
          (\E b \in Banks : c \in BankCollections(b) /\ Live(hist, b))
          => GetSoundHandle(c) # NullHandle

(* --------------------------------- C8 ---------------------------------- *)

\* The collections listed by every bank.
Shared == {c \in Collections : \A b \in Banks : c \in BankCollections(b)}

\* An unload deinitializes the bank exactly when it is the unload that
\* brings the number of unloads up to the number of loads.
DeinitOnLastUnload ==
    (last'.op = "UnloadSoundBank" /\ ~hist'.failed /\ ~hist'.misuse)
    => (last'.deinit <=> hist'.unloads[last'.arg] = hist'.loads[last'.arg])

\* Both banks loaded once: a shared collection resolves while one of the
\* banks is still loaded and is gone once both are unloaded.
SharedReleasedLast ==
    (LegalHistory /\ \A b \in Banks : hist.loads[b] = 1)
    => \A c \in Shared :
          GetSoundHandle(c) # NullHandle <=> \E b \in Banks : Live(hist, b)

\* C8: a bank loaded k times is deinitialized at its k-th unload and not
\* earlier; with banks A and B both listing C, after Load A, Load B,
\* Unload A the collection C is still in the map, and after Unload B
\* GetSoundHandle(C) is null.
C8_ReleaseOnLastUnload == []SharedReleasedLast /\ [][DeinitOnLastUnload]_vars

\* Load A, Load B, Unload A, Unload B has just ended: the unload of B
\* deinitialized it and the shared collection left the map.
C8_Witness ==
    /\ LegalHistory
    /\ \A b \in Banks : hist.loads[b] = 1 /\ hist.unloads[b] = 1
    /\ last.op = "UnloadSoundBank"
    /\ last.arg = "B"
    /\ last.deinit
    /\ Shared # {}
    /\ \A c \in Shared : GetSoundHandle(c) = NullHandle

(* --------------------------------- C9 ---------------------------------- *)

\* C9: UnloadSoundBank for a bank that is not loaded (never loaded, or
\* unloaded as often as loaded) raises the diagnostic, changes no reference
\* counter and deinitializes nothing.
C9_UnloadNotLoaded ==
    [][(last'.op = "UnloadSoundBank" /\ ~Live(hist, last'.arg))
       => /\ last'.branch = "not loaded"
          /\ bank_ref' = bank_ref
          /\ coll_ref' = coll_ref
          /\ collection_map_' = collection_map_
          /\ ~last'.deinit]_vars

(* --------------------------------- C10 --------------------------------- *)

\* C10: after an AdvanceFrame (here: one that advances the world time) the
\* table holds no record whose channel the mixer reported as not playing when
\* the frame started.
C10_FramePrunes ==
    [][world_time_' # world_time_
       => \A i \in DOMAIN playing_sounds_' :
             mixer[playing_sounds_'[i].channel_id] # "idle"]_vars

(* --------------------------------- C11 --------------------------------- *)

\* Bus t is ducked by a bus that has a sound playing at the mixer.
DuckedByPlaying(t) ==
    \E e \in PrunedSet :
       t \in SeqToSet(BusDef(CollectionBus(e.sound_collection)).duck_buses)

\* C11: on every AdvanceFrame tick with a positive time delta, a bus ducked
\* by a bus with sounds playing moves its duck_gain toward 0 (lower, or at 0
\* already), and a bus whose ducking buses have no sound left playing at the
\* mixer moves it back toward 1 (higher, or at 1 already), so that finitely
\* many ticks alone reach 0 and 1.
C11_DuckConvergence ==
    [][world_time_' > world_time_
       => \A t \in Buses :
             IF DuckedByPlaying(t)
             THEN duck_gain'[t] < duck_gain[t] \/ duck_gain'[t] = 0
             ELSE duck_gain'[t] > duck_gain[t] \/ duck_gain'[t] = GainOne]_vars

(* --------------------------------- C12 --------------------------------- *)

\* Records sharing a priority are in the order newest first.
NewestFirst(ps) ==
    \A i, j \in DOMAIN ps :
       (/\ IsStream(ps[i].sound_collection) = IsStream(ps[j].sound_collection)
        /\ Priority(ps[i].sound_collection) = Priority(ps[j].sound_collection)
        /\ ps[i].start_time > ps[j].start_time)
       => i < j

\* C12: in the order PrioritizeChannels produces (the table a refused
\* PlaySound leaves is that order), of two records whose collections have
\* the same priority the one with the later start_time is at the lower index.
C12_PriorityTiebreak ==
    [][(last'.op = "PlaySound" /\ last'.branch = "refuse")
       => NewestFirst(playing_sounds_')]_vars

(* --------------------------------- C13 --------------------------------- *)

\* Bus j is a child of bus i by the resolved pointers.
IsChild(i, j) == \E k \in DOMAIN buses_[i].child_buses :
                    buses_[i].child_buses[k] = j

RECURSIVE Descendants(_, _)
\* The buses reached from the set front by child pointers, front included.
Descendants(front, seen) ==
    LET next == {j \in DOMAIN buses_ : \E i \in front : IsChild(i, j)} \ seen
    IN  IF next = {} THEN seen ELSE Descendants(next, seen \cup next)

\* Some bus is its own descendant.
HasCycle ==
    \E i \in DOMAIN buses_ :
       i \in Descendants({j \in DOMAIN buses_ : IsChild(i, j)},
                         {j \in DOMAIN buses_ : IsChild(i, j)})

\* C13: Initialize returns false for every bus definition list whose
\* child_buses relation contains a cycle, a bus that lists itself included.
C13_CyclesRejected == initialized = "true" => ~HasCycle

(* --------------------------------- C14 --------------------------------- *)

\* C14: PlaySound with a null handle, and PlaySound(name) with a name that
\* is not in the collection map, return kInvalidChannel and leave the table,
\* every sound counter and the mixer's voices as they were: nothing is
\* pruned, halted or started.
C14_InvalidHandle ==
    [][(last'.op = "PlaySound" /\ last'.arg = NullHandle)
       => /\ last'.ret = kInvalidChannel
          /\ playing_sounds_' = playing_sounds_
          /\ sound_counter' = sound_counter
          /\ mixer' = mixer
          /\ volume' = volume]_vars

\* A call with an invalid handle has just returned while the table holds a
\* finished sound beside a playing one.
C14_Witness ==
    /\ last.op = "PlaySound"
    /\ last.arg = NullHandle
    /\ last.ret = kInvalidChannel
    /\ \E i, j \in DOMAIN playing_sounds_ :
          /\ mixer[playing_sounds_[i].channel_id] = "idle"
          /\ mixer[playing_sounds_[j].channel_id] # "idle"

(* --------------------------------- C15 --------------------------------- *)

\* The records of buffer channels that the prune step leaves.
PrunedBufferSet == {e \in PrunedSet : e.channel_id # kStreamChannel}

\* C15: a PlaySound for a stream collection selects the stream channel
\* however many buffer channels are busy: it does not enter the priority
\* preemption, halts no buffer channel, changes no buffer voice and removes
\* no buffer record other than those the prune step drops; a record it
\* appends is on the stream channel.
C15_StreamUsesStreamChannel ==
    [][(last'.op = "PlaySound" /\ last'.arg \in Collections
        /\ IsStream(last'.arg))
       => /\ last'.ret = kStreamChannel
          /\ last'.branch = "stream"
          /\ last'.halted \subseteq {kStreamChannel}
          /\ \A c \in BufferChannels : mixer'[c] = mixer[c]
          /\ PrunedBufferSet \subseteq Range(playing_sounds_')
          /\ \A e \in Range(playing_sounds_') \ PrunedSet :
                e.channel_id = kStreamChannel]_vars

\* A stream has just been started on the stream channel while every buffer
\* channel was busy, and the buffer records are all still in the table.
C15_Witness ==
    /\ last.op = "PlaySound"
    /\ last.arg \in Collections
    /\ IsStream(last.arg)
    /\ last.played = "ok"
    /\ AllBusy
    /\ Cardinality({i \in DOMAIN playing_sounds_ :
                       playing_sounds_[i].channel_id # kStreamChannel})
          = NumChannels
    /\ StreamEntries(playing_sounds_) # {}

(* --------------------------------- C16 --------------------------------- *)

\* The channels of the records whose voice the mixer reports as not playing.
FinishedChannels ==
    {playing_sounds_[i].channel_id :
        i \in {j \in DOMAIN playing_sounds_ :
                  mixer[playing_sounds_[j].channel_id] = "idle"}}

\* C16: in every PlaySound call with a non-null handle the finished records
\* are removed before the channel is chosen: no finished sound is halted as
\* a victim, a free buffer channel is used whenever the mixer has one, and
\* after the call the only record on a channel that had finished is the new
\* one, with every sound counter equal to the number of records on its bus.
C16_PruneInsidePlaySound ==
    [][(last'.op = "PlaySound" /\ last'.arg \in Collections)
       => /\ last'.halted \cap FinishedChannels = {}
          /\ (~IsStream(last'.arg) /\ ~AllBusy) => last'.branch = "free"
          /\ \A i \in DOMAIN playing_sounds_' :
                playing_sounds_'[i].channel_id \in FinishedChannels
                => /\ i = Len(playing_sounds_')
                   /\ last'.played = "ok"
                   /\ playing_sounds_'[i] =
                          PlayingSound(last'.arg, last'.ret, world_time_)
          /\ \A b \in Buses :
                sound_counter'[b] = CountOn(playing_sounds_', b)]_vars

\* A call has just pruned the finished record of channel 0 and started its
\* sound there, below the busy channel 1 whose older record precedes the new
\* one in the table.
C16_Witness ==
    /\ last.op = "PlaySound"
    /\ last.branch = "free"
    /\ last.played = "ok"
    /\ last.pruned = 1
    /\ last.ret = 0
    /\ Len(playing_sounds_) = 2
    /\ playing_sounds_[1].channel_id = 1
    /\ playing_sounds_[1].start_time < playing_sounds_[2].start_time
    /\ playing_sounds_[2].channel_id = 0
    /\ sound_counter["sfx"] + sound_counter["master"] = 2

(* --------------------------------- C17 --------------------------------- *)

Parent(b) ==
    IF \E p \in Buses : b \in SeqToSet(BusDef(p).child_buses)
    THEN CHOOSE p \in Buses : b \in SeqToSet(BusDef(p).child_buses)
    ELSE NoBus

RECURSIVE Depth(_)
\* The number of buses on the path from the master to b.
Depth(b) == IF Parent(b) = NoBus THEN 1 ELSE 1 + Depth(Parent(b))

RECURSIVE NominalProduct(_)
\* The product of the nominal gains of the buses on the path to b.
NominalProduct(b) ==
    IF Parent(b) = NoBus THEN BusDef(b).gain
    ELSE BusDef(b).gain * NominalProduct(Parent(b))

RECURSIVE DuckProduct(_, _)
\* The product of the duck gains dg of the buses on the path to b.
DuckProduct(dg, b) ==
    IF Parent(b) = NoBus THEN dg[b] ELSE dg[b] * DuckProduct(dg, Parent(b))

RECURSIVE Power(_, _)
Power(x, n) == IF n = 0 THEN 1 ELSE x * Power(x, n - 1)

\* C18 as the spec states it: after AdvanceFrame with master_gain = G and
\* mute = false, the gain of a bus X reached from the master along buses of
\* nominal gains g1, g2, g3 is G*g1*g2*g3*X.duck_gain, whatever the duck
\* gains of the buses on the path.
C18_MasterGainComposition ==
    [][(~mute_ /\ AdvanceFrame)
       => \A X \in Buses :
             gain'[X] * Power(GainOne, Depth(X) + 1)
                = master_gain_ * NominalProduct(X) * duck_gain'[X]]_vars

\* C18 amended: the gain of X is G times the nominal gains and the duck
\* gains of all the buses on the path from the master to X, X included.
C18_MasterGainCompositionDucked ==
    [][(~mute_ /\ AdvanceFrame)
       => \A X \in Buses :
             gain'[X] * Power(GainOne, 2 * Depth(X))
                = master_gain_ * NominalProduct(X)
                    * DuckProduct(duck_gain', X)]_vars

\* After a frame with a master gain of 0.5 and music half ducked: the gain
\* of voice, three buses down, is 0.5 * 0.5 * 0.5 * 0.5.
C18_Witness ==
    /\ ~mute_
    /\ master_gain_ = GainOne \div 2
    /\ world_time_ > 0
    /\ duck_gain["music"] = GainOne \div 2
    /\ Depth("voice") = 3
    /\ gain["voice"] = GainOne \div 16
    /\ gain["music"] = GainOne \div 8

(* --------------------------------- C19 --------------------------------- *)

\* C19: Stop on a valid Channel makes exactly one call on the voice: Halt
\* when the gain of the voice is exactly zero, and otherwise FadeOut with
\* the fixed duration of 10 ms; no other voice is touched. Stop, Playing
\* and Location on a handle without a state stop the program at the
\* assertion and make no call on any voice.
C19_ChannelStop ==
    [][/\ (chan_last'.op = "Stop" /\ chan_last'.valid)
          => LET v == chan_last'.state
             IN  /\ \A w \in Voices \ {v} : voice'[w] = voice[w]
                 /\ ~aborted'
                 /\ IF voice[v].gain = 0
                    THEN /\ chan_last'.calls = <<[call |-> "Halt", ms |-> 0]>>
                         /\ voice'[v] = [voice[v] EXCEPT !.status = "halted",
                                                         !.fade_ms = 0]
                    ELSE /\ chan_last'.calls
                               = <<[call |-> "FadeOut", ms |-> 10]>>
                         /\ voice'[v] = [voice[v] EXCEPT !.status = "fading",
                                                         !.fade_ms = 10]
       /\ (chan_last'.op \in {"Stop", "Playing", "Location"}
              /\ ~chan_last'.valid)
          => /\ aborted'
             /\ chan_last'.calls = <<>>
             /\ voice' = voice
             /\ state_' = state_]_vars

\* A Stop has just halted a silent voice through its handle, while the other
\* voice, stopped earlier at a gain above zero, fades for 10 ms.
C19_Witness ==
    /\ chan_last.op = "Stop"
    /\ chan_last.valid
    /\ chan_last.gain = 0
    /\ chan_last.calls = <<[call |-> "Halt", ms |-> 0]>>
    /\ voice[chan_last.state].status = "halted"
    /\ \E w \in Voices \ {chan_last.state} :
          /\ voice[w].gain = 1
          /\ voice[w].status = "fading"
          /\ voice[w].fade_ms = 10

(* --------------------------------- C20 --------------------------------- *)

C21_InsertAfterDirection ==
    [][(/\ list_hist'.op = "InsertAfter"
        /\ ~InList(next_, list_hist'.node)
        /\ ~aborted')
       => LET x == list_hist'.this
              n == list_hist'.node
          IN  next_'[n] = x /\ prev_'[x] = n]_vars

(* --------------------------------- C26 --------------------------------- *)

\* C26: as long as no node that is in a list was inserted, every node n has
\* n.GetNext().GetPrevious() == n and n.GetPrevious().GetNext() == n; a node
\* that was removed is linked to itself, and Remove on a node that is linked
\* to itself changes nothing; a Remove takes the node out of the list of
\* every other node, which gets one shorter when the node was in it and
\* keeps the order of its other nodes.
C26_ListWellFormed ==
    /\ [](~aborted
            => \A n \in Nodes :
                  /\ prev_[next_[n]] = n
                  /\ next_[prev_[n]] = n)
    /\ [][list_hist'.op = "Remove"
            => LET x == list_hist'.this
                   Others(visited) == SelectSeq(visited, LAMBDA m : m # x)
               IN  /\ next_'[x] = x
                   /\ prev_'[x] = x
                   /\ ~InList(next_', x)
                   /\ ~InList(next_, x) => (next_' = next_ /\ prev_' = prev_)
                   /\ \A h \in Nodes \ {x} :
                         /\ Traversal(next_', h)
                               = Others(Traversal(next_, h))
                         /\ GetLength(next_', h)
                               = IF \E i \in DOMAIN Traversal(next_, h) :
                                       Traversal(next_, h)[i] = x
                                 THEN GetLength(next_, h) - 1
                                 ELSE GetLength(next_, h)]_vars

\* Item 2 has just been removed from the list 1, 2, 3: the list is 1, 3 and
\* item 2 is linked to itself.
C26_Witness ==
    /\ list_hist.op = "Remove"
    /\ list_hist.this = 2
    /\ list_hist.appended = <<1, 2, 3>>
    /\ Traversal(next_, ListHead) = <<1, 3>>
    /\ GetLength(next_, ListHead) = 2
    /\ next_[2] = 2
    /\ prev_[2] = 2
    /\ ~aborted

(* --------------------------------- C23 --------------------------------- *)

\* C23: a LoadSoundBank that answers false leaves the bank out of
\* sound_bank_map_, and a LoadSoundBank that answers true leaves the bank
\* initialized (its collections registered) with a reference count of at
\* least 1.
C23_FailedLoadLeavesNoTrace ==
    [][last'.op = "LoadSoundBank"
       => IF last'.ret = 0
          THEN last'.arg \notin sound_bank_map_'
          ELSE /\ bank_ref'[last'.arg] >= 1
               /\ BankCollections(last'.arg) \subseteq collection_map_']_vars

(* --------------------------------- C24 --------------------------------- *)

\* C24: in every state reached by PlaySound, LoadSoundBank, UnloadSoundBank
\* and AdvanceFrame in any order, the collection of every record of the
\* table is in the collection map.
C24_NoDanglingCollection ==
    \A i \in DOMAIN playing_sounds_ :
       playing_sounds_[i].sound_collection \in collection_map_

(* --------------------------------- C22 --------------------------------- *)

\* C22: in every state any two records of the table have different
\* channels, also when the mixer ends voices during a PlaySound call.
C22_NoSharedChannel ==
    \A i, j \in DOMAIN playing_sounds_ :
       i # j => playing_sounds_[i].channel_id # playing_sounds_[j].channel_id

(* --------------------------------- C25 --------------------------------- *)

\* C25: a PlaySound for a buffer collection does not halt the stream voice,
\* leaves the stream voice and its volume as they are, does not answer the
\* stream channel, and, while the stream plays, keeps the stream records of
\* the table, also when it sorts the table for a preemption.
C25_BufferLeavesStream ==
    [][BufferPlayStep
       => /\ kStreamChannel \notin last'.halted
          /\ last'.ret # kStreamChannel
          /\ mixer'[kStreamChannel] = mixer[kStreamChannel]
          /\ volume'[kStreamChannel] = volume[kStreamChannel]
          /\ mixer[kStreamChannel] # "idle"
                => /\ Cardinality(StreamEntries(playing_sounds_'))
                         = Cardinality(StreamEntries(playing_sounds_))
                   /\ {playing_sounds_'[i] : i \in StreamEntries(playing_sounds_')}
                         = {playing_sounds_[i] : i \in StreamEntries(playing_sounds_)}]_vars

\* A buffer sound has just taken the channel of a lower buffer sound while
\* the stream was playing: the stream record was in the table that was
\* sorted, and is still there with the stream playing.
C25_Witness ==
    /\ last.op = "PlaySound"
    /\ last.arg \in Collections
    /\ ~IsStream(last.arg)
    /\ last.branch = "preempt"
    /\ last.played = "ok"
    /\ mixer[kStreamChannel] # "idle"
    /\ StreamEntries(playing_sounds_) # {}

====
